---- MODULE Spec2Model ----
(***************************************************************************)
(* Model of aws_scanner_cli_final.py: the credential resolver              *)
(* get_profiles, the two scanners EC2_Scanner and EBS_Scanner with their   *)
(* four query methods, and the command dispatcher under __main__.          *)
(*                                                                         *)
(* Python values are encoded as follows.                                   *)
(*   - a str argument is a TLA+ string; None in a str position is the      *)
(*     distinguished string None, which no argument drawn below equals;    *)
(*   - a returned object is a record tagged by kind: None, str, dict or    *)
(*     DataFrame;                                                          *)
(*   - a dict is a function from its keys to its values.                   *)
(* The libraries the program calls (configparser, getopt, pandas, boto3)   *)
(* are modelled by what they do on the inputs the program hands them.      *)
(***************************************************************************)
EXTENDS Integers, Sequences, FiniteSets, TLC

VARIABLES
    config,     \* the file 'config' in the working directory
    instances,  \* the EC2 instances of the account, in listing order
    volumes,    \* the EBS volumes of the account, in listing order
    argv,       \* sys.argv[1:] of the run
    scanner,    \* the scanner object a library caller holds
    ret,        \* what the last operation did: value returned, exception, calls
    pending     \* ids returned by the last encryption query and encrypted since

vars == <<config, instances, volumes, argv, scanner, ret, pending>>

-----------------------------------------------------------------------------
(* Bounds of the model *)

MaxKeys == 2    \* options written under one section of the config file
MaxInst == 2    \* instances in the account
MaxVol == 2     \* volumes in the account

-----------------------------------------------------------------------------
(* Python values *)

None == "<None>"

Truthy(x) == x # None /\ x # ""

RetNone == [kind |-> "None"]
RetStr(s) == [kind |-> "str", s |-> s]
RetDict(d) == [kind |-> "dict", d |-> d]
RetFrame(columns, rows) == [kind |-> "DataFrame", columns |-> columns, rows |-> rows]

EmptyDict == [k \in {} |-> ""]

Range(f) == {f[x] : x \in DOMAIN f}

-----------------------------------------------------------------------------
(* The config store and configparser.RawConfigParser *)

WrittenKeys == {"aws_access_key_id", "aws_secret_access_key", "Output", "output"}
WrittenValues == {"AKIA1", "AKIA2"}
SectionNames == {"DEFAULT", "default"}

\* What a section of the file holds: the options as written, each with a value.
SectionBodies ==
    UNION {[D -> WrittenValues] : D \in {S \in SUBSET WrittenKeys : Cardinality(S) <= MaxKeys}}

\* A config file: missing, not parseable at all, or a set of sections.
ConfigFiles ==
    {[kind |-> "missing", secs |-> EmptyDict], [kind |-> "garbage", secs |-> EmptyDict]}
    \cup {[kind |-> "text", secs |-> s] :
            s \in UNION {[D -> SectionBodies] : D \in SUBSET SectionNames}}

\* RawConfigParser.optionxform: option names are lower-cased.
optionxform(k) == IF k = "Output" THEN "output" ELSE k

\* A strict parser rejects a section that writes one option twice (after
\* optionxform), and a file that is not made of sections.
ParseFails(cfg) ==
    \/ cfg.kind = "garbage"
    \/ /\ cfg.kind = "text"
       /\ \E s \in DOMAIN cfg.secs : \E k1, k2 \in DOMAIN cfg.secs[s] :
            k1 # k2 /\ optionxform(k1) = optionxform(k2)

\* The options of one written section, keyed by their normalised names.
ParsedSection(body) ==
    [k \in {optionxform(w) : w \in DOMAIN body} |->
        body[CHOOSE w \in DOMAIN body : optionxform(w) = k]]

\* parser.defaults(): the options written under [DEFAULT].
Defaults(cfg) ==
    IF cfg.kind = "text" /\ "DEFAULT" \in DOMAIN cfg.secs
    THEN ParsedSection(cfg.secs["DEFAULT"])
    ELSE EmptyDict

\* parser.sections(): every section but DEFAULT.
Sections(cfg) == IF cfg.kind = "text" THEN DOMAIN cfg.secs \ {"DEFAULT"} ELSE {}

\* dict(SectionProxy): the section's own options over the defaults.
ProxyDict(cfg, name) ==
    LET own == IF name = "DEFAULT" THEN Defaults(cfg) ELSE ParsedSection(cfg.secs[name])
        dfl == Defaults(cfg)
    IN  [k \in DOMAIN own \cup DOMAIN dfl |-> IF k \in DOMAIN own THEN own[k] ELSE dfl[k]]

\* {key: dict(value) for key, value in config.items()}
ConfigItems(cfg) == [name \in Sections(cfg) \cup {"DEFAULT"} |-> ProxyDict(cfg, name)]

\* config_dict.pop('DEFAULT')
Pop(d, key) == [k \in DOMAIN d \ {key} |-> d[k]]

\* get_profiles(profile): [exc, val]; exc is "" when the call returns.
get_profiles(cfg, profile) ==
    IF ParseFails(cfg)
    THEN [exc |-> "configparser.Error", val |-> RetNone]
    ELSE LET config_dict == Pop(ConfigItems(cfg), "DEFAULT")
         IN  IF Truthy(profile)
             THEN [exc |-> "",
                   val |-> IF profile \in DOMAIN config_dict
                           THEN RetDict(config_dict[profile])
                           ELSE RetNone]
             ELSE [exc |-> "", val |-> RetDict(config_dict)]

-----------------------------------------------------------------------------
(* The cloud account and the boto3 handles *)

MonitoringStates == <<"enabled", "disabled">>
InstanceStates == <<"pending", "running", "shutting-down", "terminated", "stopping", "stopped">>

InstanceId(i) == <<"i-1", "i-2", "i-3", "i-4">>[i]
VolumeId(i) == <<"vol-1", "vol-2", "vol-3", "vol-4">>[i]

\* One instance as the listing call yields it.
InstanceRecords(i) ==
    [id : {InstanceId(i)}, monitoring : Range(MonitoringStates), state : {"running", "stopped"}]

InstanceLists ==
    UNION {{s \in [1..n -> UNION {InstanceRecords(i) : i \in 1..n}] :
                \A i \in 1..n : s[i] \in InstanceRecords(i)} : n \in 0..MaxInst}

TagLists == {<<>>, <<"t1">>}

\* One volume as describe_volumes returns it. Attachments is always present
\* and is empty exactly when the volume is available; the key Tags is absent
\* (here: <<>>) when the volume has no tags.
VolumeRecords(i) ==
    {v \in [VolumeId : {VolumeId(i)}, State : {"available", "in-use"}, Encrypted : BOOLEAN,
            Attachments : {<<>>, <<"att1">>}, Tags : TagLists] :
        (v.State = "available") <=> (v.Attachments = <<>>)}

VolumeLists ==
    UNION {{s \in [1..n -> UNION {VolumeRecords(i) : i \in 1..n}] :
                \A i \in 1..n : s[i] \in VolumeRecords(i)} : n \in 0..MaxVol}

\* Does x occur in the sequence s
InSeq(x, s) == \E i \in 1..Len(s) : s[i] = x

\* What the service yields for instances.filter(Filters=[{Name, Values}]).
ListInstances(insts, name, values) ==
    LET Match(r) == IF name = "monitoring-state"
                    THEN InSeq(r.monitoring, values)
                    ELSE InSeq(r.state, values)
    IN  SelectSeq(insts, Match)

\* One record of a call made through a boto3 handle.
\* ok: the call returned; status: the HTTPStatusCode of what it returned.
ApiCall(api, name, values, ok, status) ==
    [api |-> api, name |-> name, values |-> values, ok |-> ok, status |-> status]

-----------------------------------------------------------------------------
(* What an operation did *)

Idle ==
    [op |-> "", val |-> RetNone, exc |-> "", printed |-> "",
     calls |-> <<>>, fetched |-> <<>>,
     resolved |-> 0, constructed |-> <<>>, invoked |-> <<>>, fil |-> None, arg |-> None]

NoScanner ==
    [cls |-> "", profile |-> None, region |-> None, operation |-> None,
     fil |-> None, sort |-> None, handle |-> FALSE, key |-> None]

\* dict.get(key): None when the key is absent.
Get(d, key) == IF key \in DOMAIN d THEN d[key] ELSE None

-----------------------------------------------------------------------------
(* Scanner construction: EC2_Scanner.__init__ and EBS_Scanner.__init__ *)

\* The body both constructors share. get_profiles runs before the try block;
\* profile.get and the boto3 call run inside it. connOk: boto3 builds the
\* handle. Result: [exc, obj, printed].
ScannerInit(cls, msg, cfg, profile, region, operation, fil, sort, connOk) ==
    LET p == get_profiles(cfg, profile)
        self == [cls |-> cls, profile |-> profile, region |-> region,
                 operation |-> operation, fil |-> fil, sort |-> sort,
                 handle |-> FALSE, key |-> None]
    IN  IF p.exc # ""
        THEN [exc |-> p.exc, obj |-> NoScanner, printed |-> ""]
        ELSE IF p.val.kind = "None" \/ ~connOk
        THEN [exc |-> "", obj |-> self, printed |-> msg]
        ELSE [exc |-> "",
              obj |-> [self EXCEPT !.handle = TRUE,
                                   !.key = Get(p.val.d, "aws_access_key_id")],
              printed |-> ""]

EC2_Scanner(cfg, profile, region, operation, fil, sort, connOk) ==
    ScannerInit("EC2_Scanner", "Something went wrong while connecting to EC2",
                cfg, profile, region, operation, fil, sort, connOk)

EBS_Scanner(cfg, profile, region, operation, fil, sort, connOk) ==
    ScannerInit("EBS_Scanner", "Something went wrong while connecting to EBS",
                cfg, profile, region, operation, fil, sort, connOk)

-----------------------------------------------------------------------------
(* Instance scanner queries *)

\* The Values list the monitoring query hands to the listing call.
MonitoringFilter(fil) == IF fil = "all" THEN MonitoringStates ELSE <<"">>

\* StateFilter handing the caller's value on to the listing call.
StateFilterPassThrough(fil) == IF fil = "all" THEN InstanceStates ELSE <<fil>>

\* The Values list the state query hands to the listing call.
StateFilter(fil) == IF fil = "all" THEN InstanceStates ELSE <<"">>

\* Swallow letting the exception out after the diagnostic.
SwallowReraise(op, msg, calls) ==
    [Idle EXCEPT !.op = op, !.val = RetNone, !.printed = msg, !.calls = calls,
                 !.exc = "Exception"]

\* Swallow returning the empty-result sentinel after the diagnostic.
SwallowSentinel(op, msg, calls) ==
    [Idle EXCEPT !.op = op, !.val = RetStr("No Instances"), !.printed = msg, !.calls = calls]

\* What a query method does when its try block raises: print, return nothing.
Swallow(op, msg, calls) ==
    [Idle EXCEPT !.op = op, !.val = RetNone, !.printed = msg, !.calls = calls]

\* InstanceResult without the test for an empty table.
InstanceResultNoSentinel(column, rows) == RetFrame(<<"Instance", column>>, rows)

\* dataframe = pd.DataFrame(data), replaced by the sentinel when it is empty.
InstanceResult(column, rows) ==
    IF Len(rows) = 0
    THEN RetStr("No Instances")
    ELSE RetFrame(<<"Instance", column>>, rows)

\* The two instance queries share their body; attr is the instance attribute
\* read, column the second column of the table. fault: the listing call raises.
InstanceQuery(op, msg, name, attr, column, values, self, insts, fault) ==
    IF ~self.handle
    THEN Swallow(op, msg, <<>>)
    ELSE IF fault
    THEN Swallow(op, msg, <<ApiCall("instances.filter", name, values, FALSE, 0)>>)
    ELSE LET yielded == ListInstances(insts, name, values)
             rows == [i \in 1..Len(yielded) |->
                        [c \in {"Instance", column} |->
                            IF c = "Instance" THEN yielded[i].id
                            ELSE IF attr = "monitoring" THEN yielded[i].monitoring
                            ELSE yielded[i].state]]
         IN  [Idle EXCEPT !.op = op,
                          !.calls = <<ApiCall("instances.filter", name, values, TRUE, 200)>>,
                          !.fetched = yielded,
                          !.val = InstanceResult(column, rows)]

get_instances_by_monitoring(self, insts, fault) ==
    InstanceQuery("get_instances_by_monitoring",
                  "Something went wrong while getting ec2 instances by monitoring ",
                  "monitoring-state", "monitoring", "Monitoring",
                  MonitoringFilter(self.fil), self, insts, fault)

get_instances_by_state(self, insts, fault) ==
    InstanceQuery("get_instances_by_state",
                  "Something went wrong while getting ec2 instances by state.",
                  "instance-state-name", "state", "State",
                  StateFilter(self.fil), self, insts, fault)

-----------------------------------------------------------------------------
(* pandas, as the volume scanner uses it *)

\* A table cell holding a whole list, one element of a list, or NaN.
ListCell(l) == [cell |-> "list", v |-> l]
ElemCell(e) == [cell |-> "elem", v |-> <<e>>]
NaNCell == [cell |-> "nan", v |-> <<>>]

\* The list-valued fields of a volume dict: Attachments, and Tags when present.
ListLengths(vol) ==
    {Len(vol.Attachments)} \cup (IF vol.Tags = <<>> THEN {} ELSE {Len(vol.Tags)})

\* pd.DataFrame(each_volume) on a dict of scalars and lists raises when the
\* lists differ in length.
FrameOfDictFails(vol) == Cardinality(ListLengths(vol)) > 1

\* pd.DataFrame(each_volume): one row per list position, the scalars repeated
\* on every row; no row at all when the lists are empty.
FrameOfDict(vol) ==
    LET n == CHOOSE k \in ListLengths(vol) : TRUE
    IN  [i \in 1..n |->
            [VolumeId |-> vol.VolumeId, State |-> vol.State, Encrypted |-> vol.Encrypted,
             Attachments |-> ElemCell(vol.Attachments[i]),
             Tags |-> IF vol.Tags = <<>> THEN NaNCell ELSE ElemCell(vol.Tags[i])]]

\* pd.DataFrame(volumelist) on a list of dicts: one row per dict.
FrameOfList(vols) ==
    [i \in 1..Len(vols) |->
        [VolumeId |-> vols[i].VolumeId, State |-> vols[i].State,
         Encrypted |-> vols[i].Encrypted,
         Attachments |-> ListCell(vols[i].Attachments),
         Tags |-> IF vols[i].Tags = <<>> THEN NaNCell ELSE ListCell(vols[i].Tags)]]

\* pd.concat over the per-volume frames, in order.
RECURSIVE ConcatFrames(_)
ConcatFrames(vols) ==
    IF vols = <<>> THEN <<>>
    ELSE FrameOfDict(Head(vols)) \o ConcatFrames(Tail(vols))

VolumeColumns == <<"VolumeId", "State", "Encrypted", "Attachments", "Tags">>

-----------------------------------------------------------------------------
(* Volume scanner queries *)

\* fault: describe_volumes raises; status: the HTTPStatusCode of its response.
get_volumes_by_state(self, vols, fault, status) ==
    LET op == "get_volumes_by_state"
        msg == "Something went wrong while getting ebs volumes by state."
        call == ApiCall("describe_volumes", "", <<>>, ~fault, IF fault THEN 0 ELSE status)
    IN  IF ~self.handle
        THEN Swallow(op, msg, <<>>)
        ELSE IF fault
        THEN Swallow(op, msg, <<call>>)
        ELSE IF status = 200 /\ \E i \in 1..Len(vols) : FrameOfDictFails(vols[i])
        THEN [Swallow(op, msg, <<call>>) EXCEPT !.fetched = vols]
        ELSE LET volumes_df == IF status = 200 THEN ConcatFrames(vols) ELSE <<>>
                 Keep(row) == row.State = self.fil
             IN  [Idle EXCEPT !.op = op, !.calls = <<call>>, !.fetched = vols,
                              !.val = IF Len(volumes_df) = 0
                                      THEN RetStr("No Volumes")
                                      ELSE IF Truthy(self.fil)
                                      THEN RetFrame(VolumeColumns, SelectSeq(volumes_df, Keep))
                                      ELSE RetFrame(VolumeColumns, volumes_df)]

\* Unencrypted keeping every row.
UnencryptedAll(df) == df

\* volumns_df[volumns_df["Encrypted"] == False]
Unencrypted(df) ==
    LET Keep(row) == row.Encrypted = FALSE
    IN  SelectSeq(df, Keep)

get_volumes_by_encryption(self, vols, fault) ==
    LET op == "get_volumes_by_encryption"
        msg == "Something went wrong while getting ebs volumes by encryption."
        call == ApiCall("describe_volumes", "", <<>>, ~fault, IF fault THEN 0 ELSE 200)
    IN  IF ~self.handle
        THEN Swallow(op, msg, <<>>)
        ELSE IF fault
        THEN Swallow(op, msg, <<call>>)
        ELSE LET volumns_df == FrameOfList(vols)
             IN  [Idle EXCEPT !.op = op, !.calls = <<call>>, !.fetched = vols,
                              !.val = IF Len(volumns_df) > 0
                                      THEN RetFrame(VolumeColumns, Unencrypted(volumns_df))
                                      ELSE RetStr("No Volumes")]

-----------------------------------------------------------------------------
(* getopt.getopt, as the dispatcher uses it *)

\* The words of a command line are strings; TLA+ strings cannot be taken
\* apart, so Lex gives the lexical shape of each word the model uses:
\* t is "long" for --name and --name=value, "short" for -x, "end" for --,
\* "word" otherwise; s is the option name (or the word itself), eq whether
\* a value is attached with =, v that value.
Word(w) == [t |-> "word", s |-> w, eq |-> FALSE, v |-> ""]
Long(n) == [t |-> "long", s |-> n, eq |-> FALSE, v |-> ""]
LongEq(n, v) == [t |-> "long", s |-> n, eq |-> TRUE, v |-> v]

Lex(w) ==
    CASE w = "--operation" -> Long("operation")
      [] w = "--region" -> Long("region")
      [] w = "--profile" -> Long("profile")
      [] w = "--prof" -> Long("prof")
      [] w = "--filter" -> Long("filter")
      [] w = "--sort" -> Long("sort")
      [] w = "--help" -> Long("help")
      [] w = "--bogus" -> Long("bogus")
      [] w = "--operation=state" -> LongEq("operation", "state")
      [] w = "--profile=" -> LongEq("profile", "")
      [] w = "--filter=" -> LongEq("filter", "")
      [] w = "--" -> [t |-> "end", s |-> "", eq |-> FALSE, v |-> ""]
      [] w = "-o" -> [t |-> "short", s |-> "o", eq |-> FALSE, v |-> ""]
      [] OTHER -> Word(w)

\* long_options = ["operation=", "region=", "profile=", "filter=", "sort=", "help="]
long_options == {"operation", "region", "profile", "filter", "sort", "help"}

\* The short options that take no argument: "orpfsh:" without h.
short_flags == {"o", "r", "p", "f", "s"}

\* getopt.long_has_args: the option a name stands for, "" when it stands for
\* none. A unique prefix of an option stands for it.
long_has_args(n) ==
    IF n \in long_options THEN n
    ELSE IF n = "prof" THEN "profile"
    ELSE ""

\* The key under which getopt reports a long option.
LongKey(n) ==
    CASE n = "operation" -> "--operation"
      [] n = "region" -> "--region"
      [] n = "profile" -> "--profile"
      [] n = "filter" -> "--filter"
      [] n = "sort" -> "--sort"
      [] n = "help" -> "--help"

\* getopt.getopt(args, options, long_options): [err, opts], opts the
\* (option, value) pairs in order. Parsing stops at the first word that is
\* not an option. Every long option takes an argument: the attached one, or
\* else the next word whatever it is.
RECURSIVE getopt(_)
getopt(args) ==
    IF args = <<>> THEN [err |-> FALSE, opts |-> <<>>]
    ELSE LET a == Lex(Head(args))
         IN  IF a.t \in {"word", "end"}
             THEN [err |-> FALSE, opts |-> <<>>]
             ELSE IF a.t = "short"
             THEN IF a.s \in short_flags
                  THEN LET rest == getopt(Tail(args))
                       IN  [err |-> rest.err, opts |-> <<<<Head(args), "">>>> \o rest.opts]
                  ELSE [err |-> TRUE, opts |-> <<>>]
             ELSE IF long_has_args(a.s) = ""
             THEN [err |-> TRUE, opts |-> <<>>]
             ELSE IF a.eq
             THEN LET rest == getopt(Tail(args))
                  IN  [err |-> rest.err,
                       opts |-> <<<<LongKey(long_has_args(a.s)), a.v>>>> \o rest.opts]
             ELSE IF Len(args) = 1
             THEN [err |-> TRUE, opts |-> <<>>]
             ELSE LET rest == getopt(Tail(Tail(args)))
                  IN  [err |-> rest.err,
                       opts |-> <<<<LongKey(long_has_args(a.s)), args[2]>>>> \o rest.opts]

\* dict(arguments): a later pair replaces an earlier one with the same key.
DictOf(opts) ==
    [k \in {opts[i][1] : i \in 1..Len(opts)} |->
        opts[CHOOSE i \in 1..Len(opts) :
                /\ opts[i][1] = k
                /\ \A j \in (i + 1)..Len(opts) : opts[j][1] # k][2]]

-----------------------------------------------------------------------------
(* The command dispatcher: the body under if __name__ == '__main__' *)

\* What a run ends with when it raises before any scanner exists.
Raise(exc) == [Idle EXCEPT !.op = "__main__", !.exc = exc]

\* The branch taken when the first argument is --help.
MainHelp(args) ==
    LET argumentList == IF Len(args) = 1 THEN args \o <<"both">> ELSE args
    IN  IF argumentList[2] \in {"ec2", "ebs", "both"}
        THEN IF getopt(argumentList).err
             THEN Raise("GetoptError")
             ELSE [Idle EXCEPT !.op = "__main__",
                               !.printed = DictOf(getopt(argumentList).opts)["--help"]]
        ELSE Raise("ValueError")

\* The branch that constructs a scanner and calls one query method on it.
MainScan(aws_service, d, cfg, insts, vols, connOk, fault, status) ==
    LET profile == Get(d, "--profile")
        region == Get(d, "--region")
        operation == Get(d, "--operation")
        fil == Get(d, "--filter")
        sort == Get(d, "--sort")
        made == IF aws_service = "ec2"
                THEN EC2_Scanner(cfg, profile, region, operation, fil, sort, connOk)
                ELSE EBS_Scanner(cfg, profile, region, operation, fil, sort, connOk)
        out == IF aws_service = "ec2"
               THEN IF operation = "state"
                    THEN get_instances_by_state(made.obj, insts, fault)
                    ELSE get_instances_by_monitoring(made.obj, insts, fault)
               ELSE IF operation = "state"
                    THEN get_volumes_by_state(made.obj, vols, fault, status)
                    ELSE get_volumes_by_encryption(made.obj, vols, fault)
    IN  IF made.exc # ""
        THEN [Raise(made.exc) EXCEPT !.resolved = 1]
        ELSE [out EXCEPT !.invoked = <<out.op>>, !.op = "__main__", !.resolved = 1,
                         !.constructed = <<made.obj.cls>>, !.fil = made.obj.fil]

\* Main with the test for the required flags forgetting --profile.
MainNoProfileCheck(args, cfg, insts, vols, connOk, fault, status) ==
    IF Len(args) = 0 THEN Raise("Exception")
    ELSE IF args[1] = "--help" THEN MainHelp(args)
    ELSE IF args[1] \notin {"ec2", "ebs"} THEN Raise("ValueError")
    ELSE LET parsed == getopt(Tail(args))
             arguments_dict == DictOf(parsed.opts)
         IN  IF parsed.err THEN Raise("GetoptError")
             ELSE IF {"--operation", "--region"} \subseteq DOMAIN arguments_dict
             THEN MainScan(args[1], arguments_dict, cfg, insts, vols, connOk, fault, status)
             ELSE Raise("ValueError")

\* The whole run on the command line args.
Main(args, cfg, insts, vols, connOk, fault, status) ==
    IF Len(args) = 0 THEN Raise("Exception")
    ELSE IF args[1] = "--help" THEN MainHelp(args)
    ELSE IF args[1] \notin {"ec2", "ebs"} THEN Raise("ValueError")
    ELSE LET parsed == getopt(Tail(args))
             arguments_dict == DictOf(parsed.opts)
         IN  IF parsed.err THEN Raise("GetoptError")
             ELSE IF {"--operation", "--region", "--profile"} \subseteq DOMAIN arguments_dict
             THEN MainScan(args[1], arguments_dict, cfg, insts, vols, connOk, fault, status)
             ELSE Raise("ValueError")

-----------------------------------------------------------------------------
(* Inputs *)

GoodSection == [k \in {"aws_access_key_id", "aws_secret_access_key"} |-> "AKIA1"]

\* The config files the scanners are run against: none, an unparseable one,
\* one with a [default] profile, one with nothing but [DEFAULT].
ScannerConfigs ==
    {[kind |-> "missing", secs |-> EmptyDict],
     [kind |-> "garbage", secs |-> EmptyDict],
     [kind |-> "text", secs |-> [n \in {"default"} |-> GoodSection]],
     [kind |-> "text", secs |-> [n \in {"DEFAULT"} |-> GoodSection]]}

ProfileArgs == {None, "", "default", "DEFAULT", "dev"}
ScannerProfiles == {"", "default", "dev"}
InstanceFilters == {None, "", "all", "ALL", "running", "enabled"}
VolumeFilters == {None, "", "available", "in-use", "In-Use"}
StatusCodes == {200, 500}

\* The accounts the command line is run against: an empty one, one with an
\* instance and an attached volume, one with an instance and a tagged free
\* volume.
Accounts ==
    LET i1 == [id |-> InstanceId(1), monitoring |-> "enabled", state |-> "running"]
        v1 == [VolumeId |-> VolumeId(1), State |-> "in-use", Encrypted |-> FALSE,
               Attachments |-> <<"att1">>, Tags |-> <<>>]
        v2 == [VolumeId |-> VolumeId(1), State |-> "available", Encrypted |-> TRUE,
               Attachments |-> <<>>, Tags |-> <<"t1">>]
    IN  {[instances |-> <<>>, volumes |-> <<>>],
         [instances |-> <<i1>>, volumes |-> <<v1>>],
         [instances |-> <<i1>>, volumes |-> <<v2>>]}

NoPending == [returned |-> {}, flipped |-> {}, gone |-> {}]

\* The command lines: a first argument, then the flags, each absent or given
\* in one of its spellings, between an optional leading and trailing word.
CommandLines ==
    {<<>>}
    \cup {<<"--help">> \o h : h \in {<<>>, <<"ec2">>, <<"ebs">>, <<"both">>, <<"s3">>}}
    \cup {<<"s3">> \o o \o r : o \in {<<>>, <<"--operation", "state">>},
                                  r \in {<<>>, <<"--region", "us-east-1">>}}
    \cup {<<svc>> \o pre \o o \o r \o p \o f \o s \o post :
            svc \in {"ec2", "ebs"},
            pre \in {<<>>, <<"-o">>, <<"--bogus">>, <<"extra">>, <<"--">>},
            o \in {<<>>, <<"--operation", "state">>, <<"--operation=state">>,
                   <<"--operation", "monitoring">>},
            r \in {<<>>, <<"--region", "us-east-1">>},
            p \in {<<>>, <<"--profile", "default">>, <<"--prof", "dev">>, <<"--profile=">>},
            f \in {<<>>, <<"--filter", "all">>, <<"--filter", "in-use">>, <<"--filter=">>},
            s \in {<<>>, <<"--sort", "asc">>},
            post \in {<<>>, <<"--profile">>}}

-----------------------------------------------------------------------------
(* Spec: one run of the program from the command line *)

Init ==
    /\ config \in ScannerConfigs
    /\ \E cloud \in Accounts : instances = cloud.instances /\ volumes = cloud.volumes
    /\ argv \in CommandLines
    /\ scanner = NoScanner
    /\ ret = Idle
    /\ pending = NoPending

\* The program runs to its end: it returns or dies with an exception.
Run ==
    /\ ret.op = ""
    /\ \E connOk \in BOOLEAN, fault \in BOOLEAN, status \in StatusCodes :
        ret' = Main(argv, config, instances, volumes, connOk, fault, status)
    /\ UNCHANGED <<config, instances, volumes, argv, scanner, pending>>

Next == Run

Spec == Init /\ [][Next]_vars

-----------------------------------------------------------------------------
(* SpecProfiles: get_profiles called on a config file *)

InitProfiles ==
    /\ config \in ConfigFiles
    /\ instances = <<>>
    /\ volumes = <<>>
    /\ argv = <<>>
    /\ scanner = NoScanner
    /\ ret = Idle
    /\ pending = NoPending

Resolve(profile) ==
    /\ LET r == get_profiles(config, profile)
       IN  ret' = [Idle EXCEPT !.op = "get_profiles", !.arg = profile,
                               !.val = r.val, !.exc = r.exc, !.resolved = 1]
    /\ UNCHANGED <<config, instances, volumes, argv, scanner, pending>>

NextProfiles == \E profile \in ProfileArgs : Resolve(profile)

SpecProfiles == InitProfiles /\ [][NextProfiles]_vars

-----------------------------------------------------------------------------
(* SpecEC2: a caller that builds instance scanners and queries them *)

InitEC2 ==
    /\ config \in ScannerConfigs
    /\ instances \in InstanceLists
    /\ volumes = <<>>
    /\ argv = <<>>
    /\ scanner = NoScanner
    /\ ret = Idle
    /\ pending = NoPending

\* scanner = Cls(...): the caller builds one scanner; its variable is bound
\* only when the constructor returns.
Construct(made, name) ==
    /\ scanner.cls = ""
    /\ scanner' = IF made.exc = "" THEN made.obj ELSE scanner
    /\ ret' = [Idle EXCEPT !.op = name, !.exc = made.exc, !.printed = made.printed,
                           !.resolved = 1,
                           !.constructed = IF made.exc = "" THEN <<name>> ELSE <<>>]
    /\ UNCHANGED <<config, instances, volumes, argv, pending>>

NewEC2 ==
    \E profile \in ScannerProfiles, fil \in InstanceFilters, connOk \in BOOLEAN :
        Construct(EC2_Scanner(config, profile, "us-east-1", "state", fil, None, connOk),
                  "EC2_Scanner")

QueryMonitoring ==
    /\ scanner.cls = "EC2_Scanner"
    /\ \E fault \in BOOLEAN : ret' = get_instances_by_monitoring(scanner, instances, fault)
    /\ UNCHANGED <<config, instances, volumes, argv, scanner, pending>>

QueryState ==
    /\ scanner.cls = "EC2_Scanner"
    /\ \E fault \in BOOLEAN : ret' = get_instances_by_state(scanner, instances, fault)
    /\ UNCHANGED <<config, instances, volumes, argv, scanner, pending>>

NextEC2 == NewEC2 \/ QueryMonitoring \/ QueryState

SpecEC2 == InitEC2 /\ [][NextEC2]_vars

-----------------------------------------------------------------------------
(* SpecEBS: a caller that builds volume scanners and queries them, while    *)
(* volumes of the account get encrypted                                    *)

InitEBS ==
    /\ config \in ScannerConfigs
    /\ instances = <<>>
    /\ volumes \in VolumeLists
    /\ argv = <<>>
    /\ scanner = NoScanner
    /\ ret = Idle
    /\ pending = NoPending

NewEBS ==
    \E profile \in ScannerProfiles, fil \in VolumeFilters, connOk \in BOOLEAN :
        Construct(EBS_Scanner(config, profile, "us-east-1", "state", fil, None, connOk),
                  "EBS_Scanner")

\* The VolumeId values of the rows of a returned table.
RowIds(val) ==
    IF val.kind = "DataFrame" THEN {val.rows[i].VolumeId : i \in 1..Len(val.rows)} ELSE {}

QueryVolumeState ==
    /\ scanner.cls = "EBS_Scanner"
    /\ \E fault \in BOOLEAN, status \in StatusCodes :
        ret' = get_volumes_by_state(scanner, volumes, fault, status)
    /\ UNCHANGED <<config, instances, volumes, argv, scanner, pending>>

QueryEncryption ==
    /\ scanner.cls = "EBS_Scanner"
    /\ \E fault \in BOOLEAN : ret' = get_volumes_by_encryption(scanner, volumes, fault)
    /\ pending' = [returned |-> RowIds(ret'.val), flipped |-> {}, gone |-> pending.flipped]
    /\ UNCHANGED <<config, instances, volumes, argv, scanner>>

\* The account's owner encrypts volume i.
EncryptVolume(i) ==
    /\ ~volumes[i].Encrypted
    /\ volumes' = [volumes EXCEPT ![i].Encrypted = TRUE]
    /\ pending' = IF volumes[i].VolumeId \in pending.returned
                  THEN [pending EXCEPT !.flipped = @ \cup {volumes[i].VolumeId}]
                  ELSE pending
    /\ UNCHANGED <<config, instances, argv, scanner, ret>>

NextEBS ==
    \/ NewEBS
    \/ QueryVolumeState
    \/ QueryEncryption
    \/ \E i \in 1..Len(volumes) : EncryptVolume(i)

SpecEBS == InitEBS /\ [][NextEBS]_vars

-----------------------------------------------------------------------------
(* Properties of get_profiles, under SpecProfiles *)

\* The config file holds both a [default] and a [DEFAULT] section and
\* get_profiles has returned.
BothSections ==
    /\ config.kind = "text"
    /\ {"default", "DEFAULT"} \subseteq DOMAIN config.secs
    /\ ret.op = "get_profiles"
    /\ ret.exc = ""

\* C1: with [default] and [DEFAULT] both in the config file,
\* get_profiles('default') returns exactly the options written under
\* [default] (by their normalised names) and none written only under
\* [DEFAULT]; get_profiles('DEFAULT') returns None and the full mapping has
\* no key DEFAULT.
C1_DefaultOnly ==
    BothSections =>
        /\ ret.arg = "default" =>
            /\ ret.val = RetDict(ParsedSection(config.secs["default"]))
            /\ \A w \in DOMAIN config.secs["DEFAULT"] :
                optionxform(w) \in DOMAIN ret.val.d =>
                    \E x \in DOMAIN config.secs["default"] : optionxform(x) = optionxform(w)
        /\ ret.arg = "DEFAULT" => ret.val = RetNone
        /\ ret.arg \in {None, ""} => ret.val.kind = "dict" /\ "DEFAULT" \notin DOMAIN ret.val.d

-----------------------------------------------------------------------------
(* Properties of the dispatcher, under Spec *)

\* The run was for ec2 or ebs and getopt parsed its flags.
Parsed ==
    /\ ret.op = "__main__"
    /\ Len(argv) > 0
    /\ argv[1] \in {"ec2", "ebs"}
    /\ ~getopt(Tail(argv)).err

\* The flags getopt found on the command line.
Flags == DOMAIN DictOf(getopt(Tail(argv)).opts)

Required == {"--operation", "--region", "--profile"}

\* C2: a run for ec2 or ebs whose parsed flags lack one of --operation,
\* --region, --profile ends with ValueError, having constructed no scanner,
\* resolved no credentials and made no cloud call; a run that has the three
\* does not end with ValueError, whether or not --filter and --sort are given.
C2_MissingFlag ==
    Parsed =>
        /\ ~(Required \subseteq Flags) =>
            /\ ret.exc = "ValueError"
            /\ ret.constructed = <<>>
            /\ ret.invoked = <<>>
            /\ ret.resolved = 0
            /\ ret.calls = <<>>
        /\ Required \subseteq Flags => ret.exc # "ValueError"

\* A run with --operation and --region but no --profile ended with ValueError.
C2_Witness ==
    /\ Parsed
    /\ {"--operation", "--region"} \subseteq Flags
    /\ "--profile" \notin Flags
    /\ ret.exc = "ValueError"

\* The query method the dispatcher is to pick.
Routed ==
    IF argv[1] = "ec2"
    THEN IF Get(DictOf(getopt(Tail(argv)).opts), "--operation") = "state"
         THEN "get_instances_by_state" ELSE "get_instances_by_monitoring"
    ELSE IF Get(DictOf(getopt(Tail(argv)).opts), "--operation") = "state"
         THEN "get_volumes_by_state" ELSE "get_volumes_by_encryption"

\* C3: a run for ec2 or ebs with --operation, --region and --profile given
\* constructs exactly one scanner of the selected type and invokes exactly
\* one query method on it, the one the operation selects; without --filter
\* the scanner's filter is None.
C3_Routing ==
    (Parsed /\ Required \subseteq Flags) =>
        /\ ret.constructed = <<IF argv[1] = "ec2" THEN "EC2_Scanner" ELSE "EBS_Scanner">>
        /\ ret.invoked = <<Routed>>
        /\ "--filter" \notin Flags => ret.fil = None

\* The run invoked a query method and the method failed: the scanner had no
\* handle, the listing call raised, or a volume could not be made a table.
QueryFailed ==
    \/ ret.calls = <<>>
    \/ ~ret.calls[1].ok
    \/ /\ ret.invoked = <<"get_volumes_by_state">>
       /\ ret.calls[1].status = 200
       /\ \E i \in 1..Len(ret.fetched) :
            /\ ret.fetched[i].Tags # <<>>
            /\ Len(ret.fetched[i].Tags) # Len(ret.fetched[i].Attachments)

\* C8: whichever of the four query methods the run invokes, no exception
\* leaves the method; when the method fails it prints a diagnostic and
\* returns None.
C8_Swallowed ==
    (ret.op = "__main__" /\ ret.invoked # <<>>) =>
        /\ ret.exc = ""
        /\ QueryFailed => ret.val = RetNone /\ ret.printed # ""

\* A run whose listing call raised: the method returned None, the run went on.
C8_Witness ==
    /\ ret.op = "__main__"
    /\ ret.invoked # <<>>
    /\ ret.calls # <<>>
    /\ ~ret.calls[1].ok
    /\ ret.val = RetNone
    /\ ret.exc = ""

-----------------------------------------------------------------------------
(* Properties of the instance scanner, under SpecEC2 *)

InstanceOps == {"get_instances_by_monitoring", "get_instances_by_state"}

\* The last operation was an instance query that reached the listing call.
Listed == ret.op \in InstanceOps /\ ret.calls # <<>>

\* C4: the Values an instance query hands to the listing call are
\* ['enabled', 'disabled'] (monitoring) or the six state names (state) when
\* the stored filter is 'all', and [''] for every other stored filter, None
\* included; the stored filter itself is never among them.
C4_EffectiveFilter ==
    Listed =>
        /\ Len(ret.calls) = 1
        /\ ret.calls[1].name = IF ret.op = "get_instances_by_monitoring"
                               THEN "monitoring-state" ELSE "instance-state-name"
        /\ ret.calls[1].values =
            IF scanner.fil # "all" THEN <<"">>
            ELSE IF ret.op = "get_instances_by_monitoring"
            THEN <<"enabled", "disabled">>
            ELSE <<"pending", "running", "shutting-down", "terminated", "stopping", "stopped">>
        /\ scanner.fil # "" => ~InSeq(scanner.fil, ret.calls[1].values)

\* The state query ran on a scanner built with filter 'running' and asked
\* the listing call for [''].
C4_Witness ==
    /\ Listed
    /\ ret.op = "get_instances_by_state"
    /\ scanner.fil = "running"
    /\ ret.calls[1].values = <<"">>

\* The second column of the table an instance query builds.
SecondColumn == IF ret.op = "get_instances_by_monitoring" THEN "Monitoring" ELSE "State"

\* C5: an instance query returns 'No Instances' exactly when its listing
\* call returned and yielded no resource; when the call yields n >= 1
\* resources the result is a table with columns Instance and Monitoring (or
\* State) and one row per resource, in the order yielded.
C5_Sentinel ==
    ret.op \in InstanceOps =>
        /\ ret.val = RetStr("No Instances") <=>
                (ret.calls # <<>> /\ ret.calls[1].ok /\ Len(ret.fetched) = 0)
        /\ (ret.calls # <<>> /\ ret.calls[1].ok /\ Len(ret.fetched) >= 1) =>
            /\ ret.val.kind = "DataFrame"
            /\ ret.val.columns = <<"Instance", SecondColumn>>
            /\ Len(ret.val.rows) = Len(ret.fetched)
            /\ \A i \in 1..Len(ret.fetched) :
                /\ DOMAIN ret.val.rows[i] = {"Instance", SecondColumn}
                /\ ret.val.rows[i]["Instance"] = ret.fetched[i].id
                /\ ret.val.rows[i][SecondColumn] =
                        IF ret.op = "get_instances_by_monitoring"
                        THEN ret.fetched[i].monitoring ELSE ret.fetched[i].state

\* The monitoring query returned a table of two rows.
C5_Witness ==
    /\ ret.op = "get_instances_by_monitoring"
    /\ Len(ret.fetched) = 2
    /\ ret.val.kind = "DataFrame"
    /\ Len(ret.val.rows) = 2

\* What the last instance query returns on the same scanner when its listing
\* call returns and yields nothing.
EmptyOutcome ==
    IF ret.op = "get_instances_by_monitoring"
    THEN get_instances_by_monitoring(scanner, <<>>, FALSE).val
    ELSE get_instances_by_state(scanner, <<>>, FALSE).val

\* The last operation was an instance query whose listing call raised.
ListingFailed == Listed /\ ~ret.calls[1].ok

\* C9 as stated: an instance query whose listing call fails returns the
\* value it returns when the call yields no resource.
C9_Indistinguishable == ListingFailed => ret.val = EmptyOutcome

\* C9 as amended: an instance query whose listing call fails returns None,
\* which differs from the 'No Instances' it returns when the call yields no
\* resource; a query on a scanner without handle returns None as well.
C9_Distinguishable ==
    /\ ListingFailed =>
        /\ ret.val = RetNone
        /\ EmptyOutcome = RetStr("No Instances")
        /\ ret.val # EmptyOutcome
    /\ (ret.op \in InstanceOps /\ ret.calls = <<>>) => ret.val = RetNone

\* The state query returned None after its listing call raised.
C9_Witness ==
    /\ ListingFailed
    /\ ret.op = "get_instances_by_state"
    /\ ret.val = RetNone

\* C10: constructing a scanner raises nothing, whatever the profile and the
\* config file; when no handle could be made a message is printed and the
\* handle is left undefined, and every query on such a scanner returns None
\* without raising and without a cloud call.
C10_NeverRaises ==
    /\ ret.op = "EC2_Scanner" =>
        /\ ret.exc = ""
        /\ ~scanner.handle => ret.printed = "Something went wrong while connecting to EC2"
    /\ (ret.op \in InstanceOps /\ ~scanner.handle) =>
        /\ ret.val = RetNone
        /\ ret.exc = ""
        /\ ret.calls = <<>>

-----------------------------------------------------------------------------
(* Properties of the volume scanner, under SpecEBS *)

\* Do the rows of a table stand for the volumes vols, one row per volume, in
\* order, with the volume's id, state and encryption flag
RowsAre(val, vols) ==
    /\ val.kind = "DataFrame"
    /\ Len(val.rows) = Len(vols)
    /\ \A i \in 1..Len(vols) :
        /\ val.rows[i].VolumeId = vols[i].VolumeId
        /\ val.rows[i].State = vols[i].State
        /\ val.rows[i].Encrypted = vols[i].Encrypted

\* The volumes of vols whose State is exactly st.
InState(vols, st) ==
    LET Keep(v) == v.State = st
    IN  SelectSeq(vols, Keep)

\* C6: when describe_volumes returns at least one volume, the state query
\* returns every fetched volume, one row per volume, if the scanner has no
\* filter, and exactly the fetched volumes whose State equals the filter if
\* it has one.
C6_StateSubset ==
    (/\ ret.op = "get_volumes_by_state"
     /\ ret.calls # <<>>
     /\ ret.calls[1].ok
     /\ ret.calls[1].status = 200
     /\ ret.fetched # <<>>) =>
        IF scanner.fil = None
        THEN RowsAre(ret.val, ret.fetched)
        ELSE RowsAre(ret.val, InState(ret.fetched, scanner.fil))

\* The fetched volumes that are not encrypted.
Plain(vols) ==
    LET Keep(v) == ~v.Encrypted
    IN  SelectSeq(vols, Keep)

\* C7: when describe_volumes returns, the encryption query returns 'No
\* Volumes' if no volume was fetched and otherwise the table of exactly the
\* fetched volumes that are not encrypted, whatever earlier calls returned;
\* a volume an earlier call returned and that was encrypted since is not in
\* the result.
C7_Unencrypted ==
    (ret.op = "get_volumes_by_encryption" /\ ret.calls # <<>> /\ ret.calls[1].ok) =>
        /\ IF ret.fetched = <<>>
           THEN ret.val = RetStr("No Volumes")
           ELSE /\ RowsAre(ret.val, Plain(ret.fetched))
                /\ \A i \in 1..Len(ret.val.rows) : ~ret.val.rows[i].Encrypted
        /\ RowIds(ret.val) \cap pending.gone = {}

\* The encryption query returned a table that lacks a volume the query
\* before it had returned and that was encrypted in between.
C7_Witness ==
    /\ ret.op = "get_volumes_by_encryption"
    /\ ret.val.kind = "DataFrame"
    /\ Len(ret.val.rows) >= 1
    /\ pending.gone # {}

====
